---- MODULE Spec2Model ----
(***************************************************************************)
(* Model of debug_model.py: the TFLite preprocessing diagnostic.           *)
(*                                                                         *)
(* Numbers.  Output values, scores and thresholds are kept in hundredths   *)
(* (1.0 is 100).  A value that the code obtains by a division (the mean,   *)
(* a probability, a confidence) is kept as an exact fraction <<num, den>>  *)
(* with den > 0, compared by cross-multiplication; float rounding is not   *)
(* modelled.                                                               *)
(***************************************************************************)
EXTENDS Integers, Sequences, FiniteSets, TLC

VARIABLES
    pc,           \* position of main()
    labelFile,    \* the label file: whether present, and its non-blank lines
    interp,       \* the loaded model: outcome of invoke for the k-th batch
    tieOrder,     \* the build's order among equal keys in np.argsort
    labels,       \* labels (line 145/148)
    strategies,   \* strategies (line 242)
    i,            \* position of the for loop of line 257 (1-based)
    calls,        \* names handed to run_inference, in call order
    errors,       \* names printed by the except branch (line 262)
    results,      \* results (line 255)
    best_spread,  \* line 251
    best_name,    \* line 252
    best_label,   \* line 253
    best_conf,    \* line 254
    labelReads,   \* indices at which the list labels was subscripted
    ranking,      \* rows printed by the loop of line 287
    report,       \* what the RECOMMENDATION section printed
    img,          \* img.size = <<width, height>>
    inShape,      \* <<H, W>> of in_det["shape"]
    resizeCalls,  \* target sizes handed to Image.resize, in call order
    arrays        \* shapes of base, base_cc, base_lb, base_ss

vars == <<pc, labelFile, interp, tieOrder, labels, strategies, i, calls,
          errors, results, best_spread, best_name, best_label, best_conf,
          labelReads, ranking, report, img, inShape, resizeCalls, arrays>>

evalVars == <<labelFile, interp, tieOrder, labels, strategies, i, calls,
              errors, results, best_spread, best_name, best_label, best_conf,
              labelReads, ranking, report>>

resizeVars == <<img, inShape, resizeCalls, arrays>>

----------------------------------------------------------------------------
(* Bounds of the explored inputs.                                          *)

MaxFree == 2      \* candidates whose inference outcome is chosen freely
MaxLabels == 3    \* longest label file
MaxDim == 6       \* largest image width and height
MaxSide == 4      \* largest model input height and width
MaxOut == 4       \* longest output vector of the single-candidate runs

----------------------------------------------------------------------------
(* Program constants, in hundredths.                                       *)

InitBestSpread == -99900     \* best_spread = -999.0
UnreliableBelow == 200       \* best_spread < 2.0
AcceptableFrom == 500        \* best_spread >= 5.0
ProbSumTarget == 100         \* abs(raw.sum() - 1.0)
ProbSumTol == 1              \* ... < 0.01
PercentFactor == 100         \* probs[top_idx] * 100.0
TopK == 3                    \* np.argsort(probs)[-3:]

----------------------------------------------------------------------------
(* Sequence and fraction helpers.                                          *)

RECURSIVE SumSeq(_)
SumSeq(s) == IF s = <<>> THEN 0 ELSE Head(s) + SumSeq(Tail(s))

MaxSeq(s) == CHOOSE m \in {s[k] : k \in DOMAIN s} : \A k \in DOMAIN s : s[k] <= m

MinOf(a, b) == IF a < b THEN a ELSE b

MaxOf(a, b) == IF a > b THEN a ELSE b

Abs(x) == IF x < 0 THEN -x ELSE x

Reverse(s) == [k \in 1..Len(s) |-> s[Len(s) + 1 - k]]

\* s[-n:] of Python
LastN(s, n) == IF Len(s) <= n THEN s ELSE SubSeq(s, Len(s) - n + 1, Len(s))

RatLess(a, b) == a[1] * b[2] < b[1] * a[2]

RatEq(a, b) == a[1] * b[2] = b[1] * a[2]

RECURSIVE Pow2(_)
Pow2(n) == IF n = 0 THEN 1 ELSE 2 * Pow2(n - 1)

----------------------------------------------------------------------------
(* Labels.  A label is <<"file", k>> (line k of the label file, 0-based),  *)
(* <<"str", k>> (str(k), synthesised) or <<"idx_", k>> (the fallback).     *)

\* out_det["shape"][1] of the model of the full runs
NOut == 4

FileLines(n) == [k \in 1..n |-> <<"file", k - 1>>]

\* load_labels(): the non-blank lines, stripped; open() raises when absent
load_labels(file) == IF file.present THEN [raised |-> FALSE, value |-> file.lines]
                     ELSE [raised |-> TRUE, value |-> <<>>]

\* [str(i) for i in range(n)]
NumericLabels(n) == [k \in 1..n |-> <<"str", k - 1>>]

\* lst[idx] of a Python list: a negative index counts from the end
Subscript(lst, idx) ==
    IF idx >= 0 /\ idx < Len(lst) THEN lst[idx + 1]
    ELSE IF idx < 0 /\ idx >= -Len(lst) THEN lst[Len(lst) + idx + 1]
    ELSE <<"IndexError", idx>>

\* Mutant of LabelLookup: the bound test off by one.
LabelLookupOffByOne(lst, idx) ==
    IF idx <= Len(lst)
    THEN [at |-> {idx}, lbl |-> Subscript(lst, idx)]
    ELSE [at |-> {}, lbl |-> <<"idx_", idx>>]

\* labels[idx] if idx < len(labels) else f"idx_{idx}"; at: the index read
LabelLookup(lst, idx) ==
    IF idx < Len(lst)
    THEN [at |-> {idx}, lbl |-> Subscript(lst, idx)]
    ELSE [at |-> {}, lbl |-> <<"idx_", idx>>]

----------------------------------------------------------------------------
(* Candidate list.                                                         *)

\* Mutant of variants: the passthrough entry is left out.
variantsNoRaw(arr, label) ==
    << [name |-> <<label, "div127.5-1 [-1,1]">>, arr |-> arr, norm |-> "symmetric"],
       [name |-> <<label, "div255 [0,1]">>,      arr |-> arr, norm |-> "unit"],
       [name |-> <<label, "ImageNet mean-std">>, arr |-> arr, norm |-> "imagenet"] >>

\* variants(arr, label): the composite name f"{label} | {norm}" is the pair
variants(arr, label) ==
    << [name |-> <<label, "raw [0,255]">>,       arr |-> arr, norm |-> "copy"],
       [name |-> <<label, "div127.5-1 [-1,1]">>, arr |-> arr, norm |-> "symmetric"],
       [name |-> <<label, "div255 [0,1]">>,      arr |-> arr, norm |-> "unit"],
       [name |-> <<label, "ImageNet mean-std">>, arr |-> arr, norm |-> "imagenet"] >>

\* the five pixel arrays of lines 170, 222-225
base == [resize |-> "stretch", channels |-> "RGB"]

base_cc == [resize |-> "center-crop", channels |-> "RGB"]

base_lb == [resize |-> "letterbox", channels |-> "RGB"]

base_ss == [resize |-> "short-side", channels |-> "RGB"]

base_bgr == [resize |-> "stretch", channels |-> "BGR"]

BuildStrategies ==
    variants(base, "stretch") \o variants(base_cc, "center-crop")
    \o variants(base_lb, "letterbox") \o variants(base_ss, "short-side")
    \o variants(base_bgr, "stretch BGR")

----------------------------------------------------------------------------
(* Scoring of one output vector.                                           *)

\* abs(raw.sum() - 1.0) < 0.01
already_prob(raw) == Abs(SumSeq(raw) - ProbSumTarget) < ProbSumTol

\* np.exp(x) for x <= 0 in hundredths, as a positive integer weight: 2^x by
\* linear interpolation between whole units, scaled by 4096 * 200.  Like exp
\* it is positive and strictly increasing until it underflows to 0.
ExpWeight(x) == (4096 * (200 - ((-x) % 100))) \div Pow2(MinOf((-x) \div 100, 30))

\* softmax(logits): e = exp(logits - max); e / e.sum()
softmax(logits) ==
    LET e == [k \in DOMAIN logits |-> ExpWeight(logits[k] - MaxSeq(logits))]
    IN  [w |-> e, den |-> SumSeq(e)]

\* probs = raw if already_prob else softmax(raw); entry k is w[k] / den
Probs(raw) == IF already_prob(raw) THEN [w |-> raw, den |-> ProbSumTarget]
              ELSE softmax(raw)

\* Mutant of Spread: max - min instead of max - mean.
SpreadMaxMin(raw) ==
    <<MaxSeq(raw) - (CHOOSE m \in {raw[k] : k \in DOMAIN raw} :
                        \A k \in DOMAIN raw : m <= raw[k]), 1>>

\* float(raw.max() - raw.mean()), as the fraction (n*max - sum) / n
Spread(raw) == <<Len(raw) * MaxSeq(raw) - SumSeq(raw), Len(raw)>>

\* np.argmax(probs): the first index of the maximum, 0-based
ArgMax(p) ==
    (CHOOSE k \in DOMAIN p.w :
        /\ \A j \in DOMAIN p.w : p.w[j] <= p.w[k]
        /\ \A j \in DOMAIN p.w : j < k => p.w[j] < p.w[k]) - 1

\* np.argsort(probs): indices (0-based) in ascending order of probability.
\* The default kind is not a stable sort: the order among equal
\* probabilities is the build's, given by the ranking tie of the positions.
ArgSort(p, tie) ==
    LET before(a, b) == \/ p.w[a] < p.w[b]
                        \/ p.w[a] = p.w[b] /\ tie[a] < tie[b]
    IN  [k \in 1..Len(p.w) |->
            (CHOOSE a \in DOMAIN p.w :
                Cardinality({b \in DOMAIN p.w : before(b, a)}) = k - 1) - 1]

\* np.argsort(probs)[-3:][::-1]
Top3(p, tie) == Reverse(LastN(ArgSort(p, tie), TopK))

\* The tuple appended at line 277, with the label read it needed.
Evaluate(name, raw, lst, tie) ==
    LET probs == Probs(raw)
        top_idx == ArgMax(probs)
        look == LabelLookup(lst, top_idx)
    IN  [entry |-> [spread |-> Spread(raw),
                    name |-> name,
                    top_lbl |-> look.lbl,
                    top_conf |-> <<probs.w[top_idx + 1] * PercentFactor, probs.den>>,
                    raw |-> raw,
                    probs |-> probs,
                    top3 |-> Top3(probs, tie)],
         at |-> look.at]

----------------------------------------------------------------------------
(* Ranking and recommendation.                                             *)

\* Mutant of Better: a later candidate with an equal score replaces the best.
BetterOrEqual(spread, best) == ~RatLess(spread, best)

\* spread > best_spread
Better(spread, best) == RatLess(best, spread)

\* Mutant of AfterError: the except branch leaves the loop (break).
AfterErrorBreak(k, n) == n + 1

\* continue: the loop goes on with the next candidate
AfterError(k, n) == k + 1

\* Mutant of SortDesc: ascending sort, then reversed (equal keys swap order).
SortAscReversed(rs) ==
    LET ahead(a, b) == \/ RatLess(rs[b].spread, rs[a].spread)
                       \/ RatEq(rs[a].spread, rs[b].spread) /\ a > b
    IN  [k \in 1..Len(rs) |->
            rs[CHOOSE a \in DOMAIN rs :
                 Cardinality({b \in DOMAIN rs : ahead(b, a)}) = k - 1]]

\* results.sort(key=lambda r: r[0], reverse=True): list.sort is stable, and
\* with reverse=True equal keys still keep their original order.
SortDesc(rs) ==
    LET ahead(a, b) == \/ RatLess(rs[b].spread, rs[a].spread)
                       \/ RatEq(rs[a].spread, rs[b].spread) /\ a < b
    IN  [k \in 1..Len(rs) |->
            rs[CHOOSE a \in DOMAIN rs :
                 Cardinality({b \in DOMAIN rs : ahead(b, a)}) = k - 1]]

\* One printed block of the loop of lines 287-297 (rank is 0-based).
PrintRow(rank, r, lst) ==
    [rank |-> rank + 1,
     name |-> r.name,
     marker |-> IF rank = 0 THEN "BEST" ELSE "",
     spread |-> r.spread,
     top_lbl |-> r.top_lbl,
     top_conf |-> r.top_conf,
     top3 |-> [j \in 1..Len(r.top3) |->
                 [lbl |-> LabelLookup(lst, r.top3[j]).lbl,
                  prob |-> <<r.probs.w[r.top3[j] + 1] * PercentFactor, r.probs.den>>]]]

PrintRows(rs, lst) == [k \in 1..Len(rs) |-> PrintRow(k - 1, rs[k], lst)]

\* the label indices the loop of lines 295-297 reads
PrintReads(rs, lst) ==
    UNION {UNION {LabelLookup(lst, rs[k].top3[j]).at : j \in DOMAIN rs[k].top3} :
              k \in DOMAIN rs}

\* Mutant of Classify: the upper threshold is exclusive.
ClassifyStrictUpper(best) ==
    IF RatLess(best, <<UnreliableBelow, 1>>) THEN "Unreliable"
    ELSE IF RatLess(<<AcceptableFrom, 1>>, best) THEN "Acceptable"
    ELSE "Mediocre"

\* if best_spread < 2.0 ... elif best_spread >= 5.0 ... else ...
Classify(best) ==
    IF RatLess(best, <<UnreliableBelow, 1>>) THEN "Unreliable"
    ELSE IF ~RatLess(best, <<AcceptableFrom, 1>>) THEN "Acceptable"
    ELSE "Mediocre"

----------------------------------------------------------------------------
(* The environment of a full run.                                          *)

\* Output vectors the model may return, in hundredths:
\* [1,2,3,10], [.25,.25,.25,.25], [0,.25,.75,3], [3,.75,.25,0], [0,.25,.75,7]
RawOutputs ==
    { <<100, 200, 300, 1000>>, <<25, 25, 25, 25>>, <<0, 25, 75, 300>>,
      <<300, 75, 25, 0>>, <<0, 25, 75, 700>> }

\* What run_inference does for one batch: it returns a vector or raises.
Outcomes == {[ok |-> FALSE, raw |-> <<>>]} \cup {[ok |-> TRUE, raw |-> v] : v \in RawOutputs}

\* The models explored: any outcome for each of the first MaxFree batches,
\* and one common outcome for the batches after them.
Interps ==
    { [k \in 1..Len(BuildStrategies) |-> IF k <= MaxFree THEN p[k] ELSE r] :
        p \in [1..MaxFree -> Outcomes], r \in Outcomes }

\* Label files of the full runs: absent, empty, or MaxLabels lines.
LabelFiles ==
    { [present |-> FALSE, lines |-> <<>>],
      [present |-> TRUE, lines |-> <<>>],
      [present |-> TRUE, lines |-> FileLines(MaxLabels)] }

\* Tie orders of the full runs: lower position first, higher position first.
TieOrders(n) == { [k \in 1..n |-> k], [k \in 1..n |-> n + 1 - k] }

\* run_inference(interp, batch) for the batch of the k-th candidate
run_inference(model, k) == model[k]

NoResize == [img |-> <<1, 1>>, inShape |-> <<1, 1>>, resizeCalls |-> <<>>, arrays |-> <<>>]

Init ==
    /\ pc = "labels"
    /\ labelFile \in LabelFiles
    /\ interp \in Interps
    /\ tieOrder \in TieOrders(NOut)
    /\ labels = <<>>
    /\ strategies = <<>>
    /\ i = 0
    /\ calls = <<>>
    /\ errors = <<>>
    /\ results = <<>>
    /\ best_spread = <<0, 1>>
    /\ best_name = <<>>
    /\ best_label = <<>>
    /\ best_conf = <<0, 1>>
    /\ labelReads = {}
    /\ ranking = <<>>
    /\ report = <<>>
    /\ img = NoResize.img
    /\ inShape = NoResize.inShape
    /\ resizeCalls = NoResize.resizeCalls
    /\ arrays = NoResize.arrays

\* The full run is followed from the loading of the labels on, with --image
\* given and the pixel arrays prepared; the resize steps that prepare them are
\* followed on their own in ResizeSpec.

\* lines 144-149: load the labels or synthesise them; labels[0] of line 146
\* raises IndexError, which is not caught, when the file has no line
LoadLabels ==
    /\ pc = "labels"
    /\ LET r == load_labels(labelFile)
       IN  IF r.raised
           THEN labels' = NumericLabels(NOut) /\ pc' = "build"
           ELSE labels' = r.value
                /\ pc' = IF Len(r.value) = 0 THEN "crash" ELSE "build"
    /\ UNCHANGED <<labelFile, interp, tieOrder, strategies, i, calls, errors,
                   results, best_spread, best_name, best_label, best_conf,
                   labelReads, ranking, report>>
    /\ UNCHANGED resizeVars

\* lines 242-255: the candidate list and the initial best_* values
BuildCandidates ==
    /\ pc = "build"
    /\ strategies' = BuildStrategies
    /\ best_spread' = <<InitBestSpread, 1>>
    /\ best_name' = <<>>
    /\ best_label' = <<>>
    /\ best_conf' = <<0, 1>>
    /\ results' = <<>>
    /\ i' = 1
    /\ pc' = "loop"
    /\ UNCHANGED <<labelFile, interp, tieOrder, labels, calls, errors,
                   labelReads, ranking, report>>
    /\ UNCHANGED resizeVars

\* lines 257-263: run_inference raises; the error is printed, the loop goes on
LoopError ==
    /\ pc = "loop"
    /\ i <= Len(strategies)
    /\ ~run_inference(interp, i).ok
    /\ calls' = Append(calls, strategies[i].name)
    /\ errors' = Append(errors, strategies[i].name)
    /\ i' = AfterError(i, Len(strategies))
    /\ UNCHANGED <<pc, labelFile, interp, tieOrder, labels, strategies, results,
                   best_spread, best_name, best_label, best_conf, labelReads,
                   ranking, report>>
    /\ UNCHANGED resizeVars

\* lines 257-283: run_inference returns; the candidate is scored and recorded
LoopScore ==
    /\ pc = "loop"
    /\ i <= Len(strategies)
    /\ run_inference(interp, i).ok
    /\ LET ev == Evaluate(strategies[i].name, run_inference(interp, i).raw,
                          labels, tieOrder)
       IN  /\ results' = Append(results, ev.entry)
           /\ labelReads' = labelReads \cup ev.at
           /\ IF Better(ev.entry.spread, best_spread)
              THEN /\ best_spread' = ev.entry.spread
                   /\ best_name' = ev.entry.name
                   /\ best_label' = ev.entry.top_lbl
                   /\ best_conf' = ev.entry.top_conf
              ELSE UNCHANGED <<best_spread, best_name, best_label, best_conf>>
    /\ calls' = Append(calls, strategies[i].name)
    /\ i' = i + 1
    /\ UNCHANGED <<pc, labelFile, interp, tieOrder, labels, strategies, errors,
                   ranking, report>>
    /\ UNCHANGED resizeVars

\* line 286, once the loop has run out of candidates
SortResults ==
    /\ pc = "loop"
    /\ i > Len(strategies)
    /\ results' = SortDesc(results)
    /\ pc' = "print"
    /\ UNCHANGED <<labelFile, interp, tieOrder, labels, strategies, i, calls,
                   errors, best_spread, best_name, best_label, best_conf,
                   labelReads, ranking, report>>
    /\ UNCHANGED resizeVars

\* lines 287-297
PrintRanking ==
    /\ pc = "print"
    /\ ranking' = PrintRows(results, labels)
    /\ labelReads' = labelReads \cup PrintReads(results, labels)
    /\ pc' = "recommend"
    /\ UNCHANGED <<labelFile, interp, tieOrder, labels, strategies, i, calls,
                   errors, results, best_spread, best_name, best_label,
                   best_conf, report>>
    /\ UNCHANGED resizeVars

\* lines 299-320
Recommend ==
    /\ pc = "recommend"
    /\ report' = Append(report, [best_name |-> best_name,
                                 best_label |-> best_label,
                                 best_conf |-> best_conf,
                                 best_spread |-> best_spread,
                                 verdict |-> Classify(best_spread)])
    /\ pc' = "done"
    /\ UNCHANGED <<labelFile, interp, tieOrder, labels, strategies, i, calls,
                   errors, results, best_spread, best_name, best_label,
                   best_conf, labelReads, ranking>>
    /\ UNCHANGED resizeVars

Next ==
    \/ LoadLabels
    \/ BuildCandidates
    \/ LoopError
    \/ LoopScore
    \/ SortResults
    \/ PrintRanking
    \/ Recommend

Spec == Init /\ [][Next]_vars

----------------------------------------------------------------------------
(* Properties of the full run.                                             *)

Succeeded == {k \in DOMAIN interp : interp[k].ok}

\* the j-th succeeding candidate, in list order
NthSucceeded(j) ==
    CHOOSE k \in Succeeded : Cardinality({m \in Succeeded : m < k}) = j - 1

\* position of a composite name in the candidate list
PositionOf(name) == CHOOSE k \in DOMAIN strategies : strategies[k].name = name

LoopFinished == pc = "loop" /\ i > Len(strategies)

Printed == pc \in {"recommend", "done"}

IsMaxOf(m, v) == (\E k \in DOMAIN v : v[k] = m) /\ (\A k \in DOMAIN v : v[k] <= m)

\* C1: when every inference call fails the run ends without crashing in a
\* "no usable result" outcome, and no recommendation (name, score, verdict)
\* is printed.
C1_AllFailedNoRecommendation ==
    (pc = "done" /\ Succeeded = {}) => report = <<>>

\* C2: whichever calls fail, the loop calls the model once per candidate in
\* list order, and when it ends results holds, in list order, one complete
\* entry per succeeding candidate and none for a failing one.
C2_LoopVisitsAllKeepsSucceeded ==
    LoopFinished =>
        /\ calls = [k \in DOMAIN strategies |-> strategies[k].name]
        /\ Len(results) = Cardinality(Succeeded)
        /\ \A j \in DOMAIN results :
             LET k == NthSucceeded(j)
                 r == results[j]
             IN  /\ r.name = strategies[k].name
                 /\ r.raw = interp[k].raw
                 /\ r.spread[2] > 0
                 /\ DOMAIN r.probs.w = DOMAIN r.raw
                 /\ r.probs.den > 0
                 /\ r.top_conf[2] > 0
                 /\ r.top_lbl[1] \in {"file", "str", "idx_"}
                 /\ Len(r.top3) = TopK
                 /\ \A t \in DOMAIN r.top3 : r.top3[t] \in 0..(Len(r.raw) - 1)
        /\ \A k \in DOMAIN interp :
             ~interp[k].ok => \A j \in DOMAIN results :
                                  results[j].name # strategies[k].name

C2_Witness ==
    /\ LoopFinished
    /\ ~interp[1].ok
    /\ interp[2].ok
    /\ ~interp[3].ok
    /\ Len(results) = 1
    /\ Len(errors) = Len(strategies) - 1

\* C3: the printed ranking holds every succeeding candidate once, in
\* descending order of score, equal scores in candidate-list order.
C3_RankingDescendingStable ==
    Printed =>
        /\ Len(ranking) = Cardinality(Succeeded)
        /\ {ranking[k].name : k \in DOMAIN ranking}
             = {strategies[k].name : k \in Succeeded}
        /\ \A a, b \in DOMAIN ranking :
             a < b =>
               /\ ranking[a].rank = a
               /\ ~RatLess(ranking[a].spread, ranking[b].spread)
               /\ RatEq(ranking[a].spread, ranking[b].spread)
                    => PositionOf(ranking[a].name) < PositionOf(ranking[b].name)

C3_Witness ==
    /\ pc = "done"
    /\ Len(ranking) = Len(strategies)
    /\ PositionOf(ranking[1].name) = 2
    /\ RatEq(ranking[2].spread, ranking[3].spread)
    /\ RatLess(ranking[3].spread, ranking[1].spread)
    /\ PositionOf(ranking[2].name) = 1
    /\ PositionOf(ranking[3].name) = 3

\* C4: the verdict is Unreliable below 2.0, Mediocre from 2.0 up to but not
\* including 5.0, Acceptable from 5.0 on.
C4_VerdictThresholds ==
    pc = "done" =>
        LET rep == report[1]
            num == rep.best_spread[1]
            den == rep.best_spread[2]
        IN  /\ Len(report) = 1
            /\ rep.verdict \in {"Unreliable", "Mediocre", "Acceptable"}
            /\ rep.verdict = "Unreliable" <=> num < 200 * den
            /\ rep.verdict = "Mediocre" <=> (200 * den <= num /\ num < 500 * den)
            /\ rep.verdict = "Acceptable" <=> 500 * den <= num

C4_Witness ==
    /\ pc = "done"
    /\ report[1].best_spread[1] = 500 * report[1].best_spread[2]
    /\ report[1].verdict = "Acceptable"

\* C7: the recorded score is max(raw) - mean(raw) of the raw vector, also
\* when the vector was taken as probabilities; [1,2,3,10] scores 6,
\* [.25,.25,.25,.25] scores 0, and the first is ranked above the second.
C7_ScoreIsMaxMinusMeanOfRaw ==
    /\ \A j \in DOMAIN results :
         LET r == results[j]
         IN  /\ \E m \in {r.raw[k] : k \in DOMAIN r.raw} :
                  /\ IsMaxOf(m, r.raw)
                  /\ r.spread[1] * Len(r.raw)
                       = r.spread[2] * (m * Len(r.raw) - SumSeq(r.raw))
             /\ r.raw = <<100, 200, 300, 1000>> => r.spread[1] = 600 * r.spread[2]
             /\ r.raw = <<25, 25, 25, 25>> => r.spread[1] = 0
    /\ Printed =>
         \A a, b \in DOMAIN results :
             /\ results[a].raw = <<100, 200, 300, 1000>>
             /\ results[b].raw = <<25, 25, 25, 25>>
             => a < b /\ ranking[a].name = results[a].name
                      /\ ranking[b].name = results[b].name

C7_Witness ==
    /\ pc = "done"
    /\ interp[1].raw = <<100, 200, 300, 1000>>
    /\ interp[3].raw = <<25, 25, 25, 25>>
    /\ ranking[1].name = <<"stretch", "raw [0,255]">>
    /\ \E b \in DOMAIN ranking :
         /\ b > 1
         /\ ranking[b].name = <<"stretch", "div255 [0,1]">>
         /\ ranking[b].spread[1] = 0

ResizeOrder == <<"stretch", "center-crop", "letterbox", "short-side", "stretch BGR">>

NormOrder == <<"raw [0,255]", "div127.5-1 [-1,1]", "div255 [0,1]", "ImageNet mean-std">>

\* C8: once built the candidate list has 4 x 4 + 4 = 20 entries, resize-major
\* and normalization-minor with the four channel-swapped stretch variants
\* last, all names distinct, and it stays as built.
C8_CandidateList ==
    pc \notin {"labels", "build", "crash"} =>
        /\ Len(strategies) = 4 * 4 + 4
        /\ \A k \in DOMAIN strategies :
             /\ strategies[k].name
                  = <<ResizeOrder[((k - 1) \div 4) + 1], NormOrder[((k - 1) % 4) + 1]>>
             /\ strategies[k].arr.channels = IF k > 4 * 4 THEN "BGR" ELSE "RGB"
             /\ strategies[k].arr.resize
                  = IF k > 4 * 4 THEN "stretch" ELSE ResizeOrder[((k - 1) \div 4) + 1]
        /\ \A a, b \in DOMAIN strategies :
             a # b => strategies[a].name # strategies[b].name

C8_Witness ==
    /\ pc = "done"
    /\ Len(strategies) = 20
    /\ Len(calls) = 20
    /\ strategies[20].name = <<"stretch BGR", "ImageNet mean-std">>

\* C10: when a candidate succeeded, the recommended variant (name, score,
\* label, confidence) is the entry ranked first and marked BEST, ties
\* included.
C10_BestIsRankOne ==
    (pc = "done" /\ results # <<>>) =>
        /\ report[1].best_name = results[1].name
        /\ report[1].best_spread = results[1].spread
        /\ report[1].best_label = results[1].top_lbl
        /\ report[1].best_conf = results[1].top_conf
        /\ ranking[1].name = report[1].best_name
        /\ \A k \in DOMAIN ranking : ranking[k].marker = "BEST" <=> k = 1

C10_Witness ==
    /\ pc = "done"
    /\ Len(results) >= 3
    /\ RatEq(results[1].spread, results[2].spread)
    /\ results[1].raw # results[2].raw
    /\ \E j \in DOMAIN results :
         /\ RatLess(results[j].spread, results[1].spread)
         /\ PositionOf(results[j].name) < PositionOf(results[1].name)

----------------------------------------------------------------------------
(* Scoring and printing of a single candidate, over all short vectors.     *)

\* values of the output vectors of the single-candidate runs: 0, .25, .5
EvalValues == {0, 25, 50}

Orders(n) == {f \in [1..n -> 1..n] : \A a, b \in 1..n : a # b => f[a] # f[b]}

EvalLabelFiles ==
    {[present |-> FALSE, lines |-> <<>>]}
    \cup {[present |-> TRUE, lines |-> FileLines(c)] : c \in 1..MaxLabels}

InitEval ==
    /\ pc = "score"
    /\ labelFile \in EvalLabelFiles
    /\ \E n \in 1..MaxOut :
         /\ interp \in {<<[ok |-> TRUE, raw |-> v]>> : v \in [1..n -> EvalValues]}
         /\ tieOrder \in Orders(n)
         /\ labels = IF labelFile.present THEN labelFile.lines ELSE NumericLabels(n)
    /\ strategies = BuildStrategies
    /\ i = 1
    /\ calls = <<>>
    /\ errors = <<>>
    /\ results = <<>>
    /\ best_spread = <<InitBestSpread, 1>>
    /\ best_name = <<>>
    /\ best_label = <<>>
    /\ best_conf = <<0, 1>>
    /\ labelReads = {}
    /\ ranking = <<>>
    /\ report = <<>>
    /\ img = NoResize.img
    /\ inShape = NoResize.inShape
    /\ resizeCalls = NoResize.resizeCalls
    /\ arrays = NoResize.arrays

\* lines 265-277 for one returned vector
ScoreOne ==
    /\ pc = "score"
    /\ LET ev == Evaluate(strategies[i].name, run_inference(interp, i).raw,
                          labels, tieOrder)
       IN  /\ results' = <<ev.entry>>
           /\ labelReads' = labelReads \cup ev.at
    /\ pc' = "row"
    /\ UNCHANGED <<labelFile, interp, tieOrder, labels, strategies, i, calls,
                   errors, best_spread, best_name, best_label, best_conf,
                   ranking, report>>
    /\ UNCHANGED resizeVars

\* lines 287-297 for that entry
PrintOne ==
    /\ pc = "row"
    /\ ranking' = PrintRows(results, labels)
    /\ labelReads' = labelReads \cup PrintReads(results, labels)
    /\ pc' = "shown"
    /\ UNCHANGED <<labelFile, interp, tieOrder, labels, strategies, i, calls,
                   errors, results, best_spread, best_name, best_label,
                   best_conf, report>>
    /\ UNCHANGED resizeVars

NextEval == ScoreOne \/ PrintOne

EvalSpec == InitEval /\ [][NextEval]_vars

\* the indices of p ordered by descending probability, lower index first
LowFirstOrder(p) ==
    LET before(a, b) == \/ p.w[a] > p.w[b]
                        \/ p.w[a] = p.w[b] /\ a < b
    IN  [k \in 1..Len(p.w) |->
            (CHOOSE a \in DOMAIN p.w :
                Cardinality({b \in DOMAIN p.w : before(b, a)}) = k - 1) - 1]

\* C5: top-3 is the three most probable indices in descending order of
\* probability, the lower index first among equal probabilities.
C5_Top3LowerIndexFirst ==
    (pc \in {"row", "shown"} /\ Len(results[1].raw) >= 3) =>
        results[1].top3 = SubSeq(LowFirstOrder(results[1].probs), 1, 3)

\* C6: resolving the top-1 and the top-3 labels never reads labels outside
\* [0, len(labels)): an index below the label count gives labels[i], an
\* index at or above it gives "idx_<i>".
C6_LabelLookupInRange ==
    /\ labelReads \subseteq 0..(Len(labels) - 1)
    /\ \A j \in DOMAIN results :
         \E t \in 0..(Len(results[j].raw) - 1) :
            /\ IsMaxOf(results[j].probs.w[t + 1], results[j].probs.w)
            /\ results[j].top_lbl
                 = IF t < Len(labels) THEN labels[t + 1] ELSE <<"idx_", t>>
    /\ \A j \in DOMAIN ranking :
         \A t \in DOMAIN ranking[j].top3 :
            LET idx == results[j].top3[t]
            IN  ranking[j].top3[t].lbl
                  = IF idx < Len(labels) THEN labels[idx + 1] ELSE <<"idx_", idx>>

C6_Witness ==
    /\ pc = "shown"
    /\ Len(labels) < Len(results[1].raw)
    /\ results[1].top_lbl[1] = "idx_"
    /\ \E t \in DOMAIN ranking[1].top3 : ranking[1].top3[t].lbl[1] = "file"
    /\ \E t \in DOMAIN ranking[1].top3 :
         ranking[1].top3[t].lbl = <<"idx_", Len(labels)>>

----------------------------------------------------------------------------
(* Resize strategies.  An image is its size <<width, height>>; a step       *)
(* gives the targets handed to Image.resize, whether it raised, and the    *)
(* shape <<rows, columns, channels>> of the array it returns.              *)

\* Image.resize(target): ValueError unless both sides are at least 1
ResizeRaises(target) == target[1] < 1 \/ target[2] < 1

\* np.array(image) of an RGB image of the given size
ArrayShape(size) == <<size[2], size[1], 3>>

Resized(target, outSize) ==
    [calls |-> <<target>>,
     raised |-> ResizeRaises(target),
     shape |-> IF ResizeRaises(target) THEN <<>> ELSE ArrayShape(outSize)]

\* img.resize((W, H)) of line 169, np.array of line 170
stretch_resize(size, W, H) == Resized(<<W, H>>, <<W, H>>)

\* Image.crop(box) with box = (left, top, right, bottom): the size of the crop
Crop(box) == <<box[3] - box[1], box[4] - box[2]>>

\* center_crop_resize: crop the s x s centre box, resize it to size x size
center_crop_resize(size, S) ==
    LET s == MinOf(size[1], size[2])
        left == (size[1] - s) \div 2
        top == (size[2] - s) \div 2
        cropped == Crop(<<left, top, left + s, top + s>>)
    IN  IF cropped[1] < 1 \/ cropped[2] < 1
        THEN [calls |-> <<>>, raised |-> TRUE, shape |-> <<>>]
        ELSE Resized(<<S, S>>, <<S, S>>)

\* letterbox_resize: scale = size / max(w, h); int(w * scale), int(h * scale);
\* the resized image is pasted on a size x size canvas
letterbox_resize(size, S) ==
    LET longer == MaxOf(size[1], size[2])
        new_w == (size[1] * S) \div longer
        new_h == (size[2] * S) \div longer
    IN  Resized(<<new_w, new_h>>, <<S, S>>)

\* short_side_resize_center_crop: the short side becomes size, the result is
\* cropped to the box (left, top, left + size, top + size)
short_side_resize_center_crop(size, S) ==
    LET new_w == IF size[1] < size[2] THEN S ELSE (size[1] * S) \div size[2]
        new_h == IF size[1] < size[2] THEN (size[2] * S) \div size[1] ELSE S
        left == (new_w - S) \div 2
        top == (new_h - S) \div 2
    IN  Resized(<<new_w, new_h>>, Crop(<<left, top, left + S, top + S>>))

InitResize ==
    /\ pc = "stretch"
    /\ img \in (1..MaxDim) \X (1..MaxDim)
    /\ inShape \in (1..MaxSide) \X (1..MaxSide)
    /\ resizeCalls = <<>>
    /\ arrays = <<>>
    /\ labelFile = [present |-> FALSE, lines |-> <<>>]
    /\ interp = <<>>
    /\ tieOrder = <<>>
    /\ labels = <<>>
    /\ strategies = <<>>
    /\ i = 0
    /\ calls = <<>>
    /\ errors = <<>>
    /\ results = <<>>
    /\ best_spread = <<0, 1>>
    /\ best_name = <<>>
    /\ best_label = <<>>
    /\ best_conf = <<0, 1>>
    /\ labelReads = {}
    /\ ranking = <<>>
    /\ report = <<>>

ResizeStep(at, name, r, then) ==
    /\ pc = at
    /\ resizeCalls' = resizeCalls \o r.calls
    /\ arrays' = IF r.raised THEN arrays
                 ELSE Append(arrays, [name |-> name, shape |-> r.shape])
    /\ pc' = IF r.raised THEN "crash" ELSE then
    /\ UNCHANGED <<img, inShape>>
    /\ UNCHANGED evalVars

\* lines 169-170: base
Stretch ==
    ResizeStep("stretch", "stretch",
               stretch_resize(img, inShape[2], inShape[1]), "center-crop")

\* line 222: base_cc
CenterCrop ==
    ResizeStep("center-crop", "center-crop",
               center_crop_resize(img, inShape[2]), "letterbox")

\* line 223: base_lb
Letterbox ==
    ResizeStep("letterbox", "letterbox",
               letterbox_resize(img, inShape[2]), "short-side")

\* line 224: base_ss
ShortSide ==
    ResizeStep("short-side", "short-side",
               short_side_resize_center_crop(img, inShape[2]), "resized")

NextResize == Stretch \/ CenterCrop \/ Letterbox \/ ShortSide

ResizeSpec == InitResize /\ [][NextResize]_vars

\* C9: for a square model input of side S and any image of width and height
\* at least 1, every resize strategy completes with an S x S x 3 array, and
\* no resize is asked for a zero-width or zero-height target.
C9_ResizeShapes ==
    (pc \in {"resized", "crash"} /\ inShape[1] = inShape[2]) =>
        /\ pc = "resized"
        /\ Len(arrays) = 4
        /\ \A k \in DOMAIN arrays : arrays[k].shape = <<inShape[1], inShape[1], 3>>
        /\ \A k \in DOMAIN resizeCalls :
             resizeCalls[k][1] >= 1 /\ resizeCalls[k][2] >= 1

====
